---------------------------- MODULE Spec2Model ----------------------------
(***************************************************************************)
(* osmosis2geojson: conversion of an Osmosis polygon filter file to a      *)
(* GeoJSON Feature.  The repository holds two variants of the same script: *)
(* src/osmosis2geojson.js (async.waterfall driver, "callback") and         *)
(* src/unnamed/part_000 (Promise driver, "promise").  The examiner         *)
(* functions, readCoordinatePair and ensureClosingCoordinates are          *)
(* identical in both; line numbers below are those of src/unnamed/part_000 *)
(* unless said otherwise.                                                  *)
(*                                                                         *)
(* A line is a sequence of one-character strings.  A number is the decimal *)
(* that Number.parseFloat read: [neg, ip, fd] with ip the integer part and *)
(* fd the fractional digits without trailing zeros, and nan set for NaN.   *)
(* The decimal is taken as exact (no binary rounding), and the input       *)
(* alphabet has no exponent and no "Infinity" literal.                     *)
(***************************************************************************)
EXTENDS Integers, Sequences, FiniteSets, TLC

(***************************************************************************)
(* Program constants                                                       *)
(***************************************************************************)
PRECISION == 12

END == <<"E", "N", "D">>

SUBTRACT == "!"

POLYGON == "Polygon"

MULTIPOLYGON == "MultiPolygon"

(***************************************************************************)
(* Bounds of the model                                                     *)
(***************************************************************************)
MaxLines == 7

MaxRingLen == 4

MaxLinesWF == 17

MaxTail == 5

(***************************************************************************)
(* JavaScript primitives used by the script                                *)
(***************************************************************************)
Min(a, b) == IF a <= b THEN a ELSE b

Digits == <<"0", "1", "2", "3", "4", "5", "6", "7", "8", "9">>

IsDigit(c) == \E d \in 1..10 : Digits[d] = c

DigitVal(c) == (CHOOSE d \in 1..10 : Digits[d] = c) - 1

NaN == [nan |-> TRUE, neg |-> FALSE, ip |-> 0, fd |-> <<>>]

\* First index j >= i of s that holds no space (Len(s)+1 when there is none).
RECURSIVE SkipSpaces(_, _)
SkipSpaces(s, i) ==
  IF i <= Len(s) /\ s[i] = " " THEN SkipSpaces(s, i + 1) ELSE i

\* String.prototype.split(/  +/g): the separators are the maximal runs of two
\* or more spaces; a single space stays inside its token.
RECURSIVE SplitFrom(_, _, _, _)
SplitFrom(s, i, cur, acc) ==
  IF i > Len(s) THEN Append(acc, cur)
  ELSE IF s[i] = " " /\ i < Len(s) /\ s[i + 1] = " "
       THEN SplitFrom(s, SkipSpaces(s, i), <<>>, Append(acc, cur))
       ELSE SplitFrom(s, i + 1, Append(cur, s[i]), acc)

\* split with the separator / +/: a single space separates too.
RECURSIVE SplitFromAnySpace(_, _, _, _)
SplitFromAnySpace(s, i, cur, acc) ==
  IF i > Len(s) THEN Append(acc, cur)
  ELSE IF s[i] = " "
       THEN SplitFromAnySpace(s, SkipSpaces(s, i), <<>>, Append(acc, cur))
       ELSE SplitFromAnySpace(s, i + 1, Append(cur, s[i]), acc)

SplitAnySpace(fileLine, limit) ==
  LET all == SplitFromAnySpace(fileLine, 1, <<>>, <<>>)
  IN  SubSeq(all, 1, Min(limit, Len(all)))

\* fileLine.split(/  +/g, limit): at most the first `limit` pieces.
Split(fileLine, limit) ==
  LET all == SplitFrom(fileLine, 1, <<>>, <<>>)
  IN  SubSeq(all, 1, Min(limit, Len(all)))

\* Length of the longest run of digits of s that starts at index i.
RECURSIVE DigitRun(_, _)
DigitRun(s, i) ==
  IF i <= Len(s) /\ IsDigit(s[i]) THEN 1 + DigitRun(s, i + 1) ELSE 0

\* Value of a digit sequence read as a natural number.
RECURSIVE NatOf(_)
NatOf(ds) ==
  IF ds = <<>> THEN 0
  ELSE 10 * NatOf(SubSeq(ds, 1, Len(ds) - 1)) + DigitVal(ds[Len(ds)])

\* A digit sequence as numbers, without its trailing zeros.
RECURSIVE StripZeros(_)
StripZeros(ds) ==
  IF ds = <<>> THEN <<>>
  ELSE IF ds[Len(ds)] = 0 THEN StripZeros(SubSeq(ds, 1, Len(ds) - 1))
       ELSE ds

\* Number.parseFloat: leading white space is skipped, then the longest prefix
\* that is a decimal literal (sign, digits, ".", digits) is read; NaN when
\* that prefix holds no digit.
ParseFloat(tok) ==
  LET b    == SkipSpaces(tok, 1)
      sgn  == b <= Len(tok) /\ tok[b] \in {"-", "+"}
      neg  == b <= Len(tok) /\ tok[b] = "-"
      i0   == IF sgn THEN b + 1 ELSE b
      n1   == DigitRun(tok, i0)
      dot  == i0 + n1 <= Len(tok) /\ tok[i0 + n1] = "."
      f0   == i0 + n1 + 1
      n2   == IF dot THEN DigitRun(tok, f0) ELSE 0
  IN  IF n1 + n2 = 0 THEN NaN
      ELSE [nan |-> FALSE,
            neg |-> neg,
            ip  |-> NatOf(SubSeq(tok, i0, i0 + n1 - 1)),
            fd  |-> StripZeros([k \in 1..n2 |-> DigitVal(tok[f0 + k - 1])])]

IsNaN(x) == x.nan

IsZero(x) == x.ip = 0 /\ x.fd = <<>>

\* x === y on numbers (+0 and -0 are equal).
NumEq(x, y) ==
  /\ ~x.nan /\ ~y.nan
  /\ x.ip = y.ip
  /\ x.fd = y.fd
  /\ (x.neg = y.neg \/ IsZero(x))

\* A digit sequence plus one in its last place: <<carry out, digits>>.
RECURSIVE Incr(_)
Incr(ds) ==
  IF ds = <<>> THEN <<1, <<>>>>
  ELSE IF ds[Len(ds)] < 9
       THEN <<0, [ds EXCEPT ![Len(ds)] = @ + 1]>>
       ELSE LET r == Incr(SubSeq(ds, 1, Len(ds) - 1))
            IN  <<r[1], Append(r[2], 0)>>

\* Number.prototype.toFixed(p): the text of x rounded (half up) to p
\* fractional digits, as <<sign, integer part, the p digits>>.  The sign is
\* written whenever x < 0, also when the rounded digits are all zero.
ToFixed(x, p) ==
  LET cut  == [k \in 1..p |-> IF k <= Len(x.fd) THEN x.fd[k] ELSE 0]
      up   == Len(x.fd) > p /\ x.fd[p + 1] >= 5
      r    == IF up THEN Incr(cut) ELSE <<0, cut>>
      sign == IF x.neg /\ ~IsZero(x) THEN "-" ELSE ""
  IN  <<sign, x.ip + r[1], r[2]>>

(***************************************************************************)
(* The GeoJSON object and the examiner functions.  gjObj is the record     *)
(* [type, coordinates, properties]; properties is a function whose domain  *)
(* is {} until fileExaminer sets "name".  An examiner returns              *)
(* [next, threw, gj]: the examiner for the next line ("null": the failure  *)
(* signal), whether a TypeError was thrown, and the object it left.        *)
(***************************************************************************)
Last(seq) == seq[Len(seq)]

\* seq[Len(seq)].push(x)
PushOnLast(seq, x) == [seq EXCEPT ![Len(seq)] = Append(@, x)]

\* Positions p and q are the same pair of numbers.
PosEq(p, q) == NumEq(p[1], q[1]) /\ NumEq(p[2], q[2])

\* The comparison of ensureClosingCoordinates: the toFixed(PRECISION) texts
\* of both axes agree.
SameFixed(p, q) ==
  /\ ToFixed(p[1], PRECISION) = ToFixed(q[1], PRECISION)
  /\ ToFixed(p[2], PRECISION) = ToFixed(q[2], PRECISION)

\* The push of readCoordinatePair going to the first ring (index 0) instead
\* of the last.
pushPositionOnFirst(gjObj, pos) ==
  LET coords == gjObj.coordinates
      thrown == [result |-> FALSE, threw |-> TRUE, gj |-> gjObj]
  IN  IF gjObj.type = MULTIPOLYGON
      THEN IF coords = <<>> \/ Last(coords) = <<>> THEN thrown
           ELSE [result |-> TRUE, threw |-> FALSE,
                 gj |-> [gjObj EXCEPT !.coordinates =
                           [coords EXCEPT ![Len(coords)] =
                              [@ EXCEPT ![1] = Append(@, pos)]]]]
      ELSE IF coords = <<>> THEN thrown
           ELSE [result |-> TRUE, threw |-> FALSE,
                 gj |-> [gjObj EXCEPT !.coordinates =
                           [coords EXCEPT ![1] = Append(@, pos)]]]

\* The push of readCoordinatePair: [result, threw, gj].  It throws a
\* TypeError when there is no last ring to push onto (coordinates[-1] is
\* undefined).
pushPosition(gjObj, pos) ==
  LET coords == gjObj.coordinates
      thrown == [result |-> FALSE, threw |-> TRUE, gj |-> gjObj]
  IN  IF gjObj.type = MULTIPOLYGON
      THEN IF coords = <<>> \/ Last(coords) = <<>> THEN thrown
           ELSE [result |-> TRUE, threw |-> FALSE,
                 gj |-> [gjObj EXCEPT !.coordinates =
                           [coords EXCEPT ![Len(coords)] =
                              PushOnLast(@, pos)]]]
      ELSE IF coords = <<>> THEN thrown
           ELSE [result |-> TRUE, threw |-> FALSE,
                 gj |-> [gjObj EXCEPT !.coordinates = PushOnLast(coords, pos)]]

\* readCoordinatePair pushing [latVal, lonVal].
readCoordinatePairSwapped(fileLine, gjObj) ==
  LET splitLine == Split(fileLine, 3)
  IN  IF Len(splitLine) > 2
      THEN LET lonVal == ParseFloat(splitLine[2])
               latVal == ParseFloat(splitLine[3])
           IN  IF IsNaN(lonVal) \/ IsNaN(latVal)
               THEN [result |-> FALSE, threw |-> FALSE, gj |-> gjObj]
               ELSE pushPosition(gjObj, <<latVal, lonVal>>)
      ELSE [result |-> FALSE, threw |-> FALSE, gj |-> gjObj]

\* readCoordinatePair without the Number.isNaN test.
readCoordinatePairKeepsNaN(fileLine, gjObj) ==
  LET splitLine == Split(fileLine, 3)
  IN  IF Len(splitLine) > 2
      THEN pushPosition(gjObj, <<ParseFloat(splitLine[2]),
                                 ParseFloat(splitLine[3])>>)
      ELSE [result |-> FALSE, threw |-> FALSE, gj |-> gjObj]

\* readCoordinatePair: [result, threw, gj].
readCoordinatePair(fileLine, gjObj) ==
  LET splitLine == Split(fileLine, 3)
  IN  IF Len(splitLine) > 2
      THEN LET lonVal == ParseFloat(splitLine[2])
               latVal == ParseFloat(splitLine[3])
           IN  IF IsNaN(lonVal) \/ IsNaN(latVal)
               THEN [result |-> FALSE, threw |-> FALSE, gj |-> gjObj]
               ELSE pushPosition(gjObj, <<lonVal, latVal>>)
      ELSE [result |-> FALSE, threw |-> FALSE, gj |-> gjObj]

\* closeRing accepting a ring of two vertices (ring.length > 1).
closeRingMinTwo(ring) ==
  IF Len(ring) > 1
  THEN [result |-> TRUE,
        ring   |-> IF ~SameFixed(ring[1], Last(ring))
                   THEN Append(ring, ring[1]) ELSE ring]
  ELSE [result |-> FALSE, ring |-> ring]

\* closeRing pushing lastPair instead of firstPair.
closeRingPushesLast(ring) ==
  IF Len(ring) > 2
  THEN [result |-> TRUE,
        ring   |-> IF ~SameFixed(ring[1], Last(ring))
                   THEN Append(ring, Last(ring)) ELSE ring]
  ELSE [result |-> FALSE, ring |-> ring]

\* The closure rule applied to one ring: [result, ring].
closeRing(ring) ==
  IF Len(ring) > 2
  THEN [result |-> TRUE,
        ring   |-> IF ~SameFixed(ring[1], Last(ring))
                   THEN Append(ring, ring[1]) ELSE ring]
  ELSE [result |-> FALSE, ring |-> ring]

\* ensureClosingCoordinates: [result, threw, gj]; ring.length throws a
\* TypeError when there is no last ring.
ensureClosingCoordinates(gjObj) ==
  LET coords == gjObj.coordinates
      none   == IF gjObj.type = MULTIPOLYGON
                THEN coords = <<>> \/ Last(coords) = <<>>
                ELSE coords = <<>>
  IN  IF none THEN [result |-> FALSE, threw |-> TRUE, gj |-> gjObj]
      ELSE LET ring == IF gjObj.type = MULTIPOLYGON
                       THEN Last(Last(coords)) ELSE Last(coords)
               c    == closeRing(ring)
           IN  [result |-> c.result, threw |-> FALSE,
                gj |-> [gjObj EXCEPT !.coordinates =
                          IF gjObj.type = MULTIPOLYGON
                          THEN [coords EXCEPT ![Len(coords)] =
                                  [@ EXCEPT ![Len(@)] = c.ring]]
                          ELSE [coords EXCEPT ![Len(coords)] = c.ring]]]

\* "Open a ring": an empty ring pushed on the last polygon (MultiPolygon) or
\* on the ring sequence (Polygon).
pushRing(gjObj) ==
  IF gjObj.type = MULTIPOLYGON
  THEN [gjObj EXCEPT !.coordinates = PushOnLast(@, <<>>)]
  ELSE [gjObj EXCEPT !.coordinates = Append(@, <<>>)]

\* pushPolygon with the promotion forgetting to wrap the rings it holds.
pushPolygonNoWrap(gjObj) ==
  [gjObj EXCEPT !.type = MULTIPOLYGON,
                !.coordinates = Append(@, << <<>> >>)]

\* pushPolygon wrapping the coordinates without setting the type.
pushPolygonKeepsType(gjObj) ==
  [gjObj EXCEPT !.coordinates = Append(<<@>>, << <<>> >>)]

\* pushPolygon wrapping the coordinates at every new polygon, not only at
\* the promotion.
pushPolygonRewraps(gjObj) ==
  [gjObj EXCEPT !.type = MULTIPOLYGON,
                !.coordinates = Append(<<@>>, << <<>> >>)]

\* The promotion and the new polygon of endExaminer's last branch.
pushPolygon(gjObj) ==
  LET g == IF gjObj.type = POLYGON
           THEN [gjObj EXCEPT !.coordinates = <<@>>, !.type = MULTIPOLYGON]
           ELSE gjObj
  IN  [g EXCEPT !.coordinates = Append(@, << <<>> >>)]

Ret(next, gj) == [next |-> next, threw |-> FALSE, gj |-> gj]

Throw(gj) == [next |-> "null", threw |-> TRUE, gj |-> gj]

\* fileExaminer without the test for an empty line.
fileExaminerAnyLine(inLine, gjObj) ==
  Ret("polygonExaminer",
      [gjObj EXCEPT !.properties = [k \in {"name"} |-> inLine]])

\* fileExaminer handing the next line to fileExaminer again.
fileExaminerStays(inLine, gjObj) ==
  IF inLine # <<>>
  THEN Ret("fileExaminer",
           [gjObj EXCEPT !.properties = [k \in {"name"} |-> inLine]])
  ELSE Ret("null", gjObj)

fileExaminer(inLine, gjObj) ==
  IF inLine # <<>>
  THEN Ret("polygonExaminer",
           [gjObj EXCEPT !.properties = [k \in {"name"} |-> inLine]])
  ELSE Ret("null", gjObj)

\* endExaminer taking a subtract-marked header for a new polygon.
endExaminerHoleAsPolygon(inLine, gjObj) ==
  IF inLine = END THEN Ret("endExaminer", gjObj)
  ELSE Ret("polygonExaminer", pushPolygon(gjObj))

endExaminer(inLine, gjObj) ==
  IF inLine = END THEN Ret("endExaminer", gjObj)
  ELSE IF inLine # <<>> /\ inLine[1] = SUBTRACT
       THEN Ret("polygonExaminer", pushRing(gjObj))
       ELSE Ret("polygonExaminer", pushPolygon(gjObj))

polygonExaminer(inLine, gjObj) ==
  IF inLine = END THEN Ret("endExaminer", gjObj)
  ELSE LET r == readCoordinatePair(inLine, gjObj)
       IN  IF r.threw THEN Throw(gjObj)
           ELSE IF r.result THEN Ret("coordinateExaminer", r.gj)
           ELSE IF inLine # <<>>
                THEN Ret("coordinateExaminer", pushRing(gjObj))
                ELSE Ret("null", gjObj)

coordinateExaminer(inLine, gjObj) ==
  IF inLine = END
  THEN LET c == ensureClosingCoordinates(gjObj)
       IN  IF c.threw THEN Throw(gjObj)
           ELSE IF ~c.result THEN Ret("null", c.gj)
           ELSE Ret("endExaminer", c.gj)
  ELSE LET r == readCoordinatePair(inLine, gjObj)
       IN  IF r.threw THEN Throw(gjObj)
           ELSE IF r.result THEN Ret("coordinateExaminer", r.gj)
           ELSE IF inLine # <<>>
                THEN Ret("polygonExaminer", pushRing(gjObj))
                ELSE Ret("null", gjObj)

\* examiner(line, gjObj) for the examiner held in the variable of that name.
Call(ex, inLine, gjObj) ==
  CASE ex = "fileExaminer"       -> fileExaminer(inLine, gjObj)
    [] ex = "polygonExaminer"    -> polygonExaminer(inLine, gjObj)
    [] ex = "coordinateExaminer" -> coordinateExaminer(inLine, gjObj)
    [] ex = "endExaminer"        -> endExaminer(inLine, gjObj)

\* The Feature readLines / asyncReadLines starts from.
InitialFeature ==
  [type        |-> POLYGON,
   coordinates |-> <<>>,
   properties  |-> [k \in {} |-> <<>>]]

(***************************************************************************)
(* Input lines                                                             *)
(***************************************************************************)
EMPTY == <<>>

\* "boundary"
NAME == <<"b", "o", "u", "n", "d", "a", "r", "y">>

\* "1": a ring header
HEADER == <<"1">>

\* "!2": a ring header with the subtract marker
HOLE == <<"!", "2">>

\* " 1  0.0  0.0"
COORD_A == <<" ", "1", " ", " ", "0", ".", "0", " ", " ", "0", ".", "0">>

\* " 2  1.0  0.0"
COORD_B == <<" ", "2", " ", " ", "1", ".", "0", " ", " ", "0", ".", "0">>

\* " 3  1.0  1.0"
COORD_C == <<" ", "3", " ", " ", "1", ".", "0", " ", " ", "1", ".", "0">>

\* " 4  0.0000000000001  0.0": 1e-13 away from the position of COORD_A
COORD_NEAR_A ==
  <<" ", "4", " ", " ", "0", ".", "0", "0", "0", "0", "0", "0", "0", "0",
    "0", "0", "0", "0", "0", "1", " ", " ", "0", ".", "0">>

\* " 1 0.0 0.0", " 2 1.0 0.0", " 3 1.0 1.0": single spaces between the tokens
SINGLE_A == <<" ", "1", " ", "0", ".", "0", " ", "0", ".", "0">>

SINGLE_B == <<" ", "2", " ", "1", ".", "0", " ", "0", ".", "0">>

SINGLE_C == <<" ", "3", " ", "1", ".", "0", " ", "1", ".", "0">>

\* Lines of three tokens with one token that is no number.
BAD_LON == <<" ", "5", " ", " ", "x", " ", " ", "0", ".", "0">>

BAD_LAT == <<" ", "6", " ", " ", "0", ".", "0", " ", " ", "y">>

\* The lines the line supply of Spec draws from.
LineSet == {EMPTY, END, HEADER, HOLE, COORD_A, COORD_B}

(***************************************************************************)
(* The driver: readLines (part_000) / asyncReadLines (osmosis2geojson.js)  *)
(* and the main program.                                                   *)
(*   variant    which of the two scripts runs                              *)
(*   examiner   the examiner for the next line ("null" after a failure)    *)
(*   gjObj      the Feature under construction                             *)
(*   delivered  the lines line-reader has passed to the callback, in order *)
(*   consumed   the lines passed on to an examiner function, in order      *)
(*   reader     "reading" until the callback got last = true or the file   *)
(*              turned out to hold no line, then "finished"                *)
(*   promise    state of the Promise of readLines ("none" for callback)    *)
(*   reports    what the main program wrote: Features (stdout) and parse   *)
(*              errors (stderr), in order                                  *)
(*   proc       "running", "exit0", "exit1" (process.exit), "crashed"      *)
(*              (uncaught TypeError), "drained" (event loop ran empty)     *)
(***************************************************************************)
VARIABLES variant, examiner, gjObj, delivered, consumed, reader, promise,
          reports, proc

vars == <<variant, examiner, gjObj, delivered, consumed, reader, promise,
          reports, proc>>

ErrorReport == [kind |-> "error", message |-> "Processing terminated"]

FeatureReport(gj) == [kind |-> "feature", value |-> gj]

Init ==
  /\ variant \in {"callback", "promise"}
  /\ examiner = "fileExaminer"
  /\ gjObj = InitialFeature
  /\ delivered = <<>>
  /\ consumed = <<>>
  /\ reader = "reading"
  /\ promise = IF variant = "promise" THEN "pending" ELSE "none"
  /\ reports = <<>>
  /\ proc = "running"

\* What the eachLine callback does once examiner(line, gjObj) returned r
\* without throwing.  callback: the waterfall's final function runs inside
\* the call and ends the process.  promise: the Promise is settled and its
\* handler runs later.
Settle(r, last) ==
  IF r.next = "null"
  THEN IF variant = "callback"
       THEN /\ reports' = Append(reports, ErrorReport)
            /\ proc' = "exit1"
            /\ UNCHANGED promise
       ELSE /\ promise' = IF promise = "pending" THEN "rejected" ELSE promise
            /\ UNCHANGED <<reports, proc>>
  ELSE IF last
  THEN IF variant = "callback"
       THEN /\ reports' = Append(reports, FeatureReport(r.gj))
            /\ proc' = "exit0"
            /\ UNCHANGED promise
       ELSE /\ promise' = IF promise = "pending" THEN "resolved" ELSE promise
            /\ UNCHANGED <<reports, proc>>
  ELSE UNCHANGED <<reports, proc, promise>>

\* The callback keeping the old examiner when the new one is null.
ExamineKeepsExaminer(line, last) ==
  /\ proc = "running"
  /\ reader = "reading"
  /\ examiner # "null"
  /\ LET r == Call(examiner, line, gjObj)
     IN  /\ delivered' = Append(delivered, line)
         /\ consumed' = Append(consumed, line)
         /\ gjObj' = r.gj
         /\ IF r.threw
            THEN /\ proc' = "crashed"
                 /\ UNCHANGED <<examiner, reader, promise, reports>>
            ELSE /\ examiner' = IF r.next = "null" THEN examiner ELSE r.next
                 /\ reader' = IF last THEN "finished" ELSE "reading"
                 /\ Settle(r, last)
  /\ UNCHANGED variant

\* The eachLine callback with a line and the last flag, examiner not null.
Examine(line, last) ==
  /\ proc = "running"
  /\ reader = "reading"
  /\ examiner # "null"
  /\ LET r == Call(examiner, line, gjObj)
     IN  /\ delivered' = Append(delivered, line)
         /\ consumed' = Append(consumed, line)
         /\ gjObj' = r.gj
         /\ IF r.threw
            THEN /\ proc' = "crashed"
                 /\ UNCHANGED <<examiner, reader, promise, reports>>
            ELSE /\ examiner' = r.next
                 /\ reader' = IF last THEN "finished" ELSE "reading"
                 /\ Settle(r, last)
  /\ UNCHANGED variant

\* The eachLine callback when examiner is null: the callback never returns
\* false, so line-reader keeps reading after a failure, and examiner(line,
\* gjObj) throws a TypeError.  Only the promise variant gets here, and only
\* if line-reader calls back before the rejection handler has run.
CallNull(line, last) ==
  /\ proc = "running"
  /\ reader = "reading"
  /\ examiner = "null"
  /\ delivered' = Append(delivered, line)
  /\ proc' = "crashed"
  /\ UNCHANGED <<variant, examiner, gjObj, consumed, reader, promise, reports>>

\* .catch(err => { console.error(err.message); process.exit(1); })
CatchHandler ==
  /\ proc = "running"
  /\ promise = "rejected"
  /\ reports' = Append(reports, ErrorReport)
  /\ promise' = "handled"
  /\ proc' = "exit1"
  /\ UNCHANGED <<variant, examiner, gjObj, delivered, consumed, reader>>

\* .then(result => { console.log(JSON.stringify(result)); })
ThenHandler ==
  /\ proc = "running"
  /\ promise = "resolved"
  /\ reports' = Append(reports, FeatureReport(gjObj))
  /\ promise' = "handled"
  /\ UNCHANGED <<variant, examiner, gjObj, delivered, consumed, reader, proc>>

\* A file without any line: eachLine never calls the callback.
NoLines ==
  /\ proc = "running"
  /\ reader = "reading"
  /\ delivered = <<>>
  /\ reader' = "finished"
  /\ UNCHANGED <<variant, examiner, gjObj, delivered, consumed, promise,
                 reports, proc>>

\* Nothing is left to run: the reader is done and no handler is pending.
Drained ==
  /\ proc = "running"
  /\ reader = "finished"
  /\ promise \in {"none", "pending", "handled"}
  /\ proc' = "drained"
  /\ UNCHANGED <<variant, examiner, gjObj, delivered, consumed, reader,
                 promise, reports>>

(***************************************************************************)
(* Spec: any file of at most MaxLines lines over LineSet.                  *)
(***************************************************************************)
AnySupply(line, last) ==
  /\ line \in LineSet
  /\ Len(delivered) < MaxLines
  /\ (Len(delivered) + 1 = MaxLines => last)

ReadLine ==
  \E line \in LineSet, last \in BOOLEAN :
    AnySupply(line, last) /\ Examine(line, last)

ReadLineAfterFailure ==
  \E line \in LineSet, last \in BOOLEAN :
    AnySupply(line, last) /\ CallNull(line, last)

Next ==
  \/ ReadLine
  \/ ReadLineAfterFailure
  \/ CatchHandler
  \/ ThenHandler
  \/ NoLines
  \/ Drained

Spec == Init /\ [][Next]_vars

(***************************************************************************)
(* SpecPrompt: as Spec, with the rejection handler always running before   *)
(* line-reader calls back again (the next read is scheduled after the      *)
(* pending Promise jobs), so that no line is delivered after a failure.    *)
(***************************************************************************)
NextPrompt ==
  \/ ReadLine
  \/ CatchHandler
  \/ ThenHandler
  \/ NoLines
  \/ Drained

SpecPrompt == Init /\ [][NextPrompt]_vars

(***************************************************************************)
(* SpecWF: well-formed files.  NAME, then one or more outer-ring groups    *)
(* (HEADER, 3..MaxRingLen coordinate lines, END, then any number of hole   *)
(* rings: HOLE, 3..MaxRingLen coordinate lines, END), then the final END;  *)
(* at most MaxLinesWF lines.                                               *)
(***************************************************************************)
WFCoordLines == {COORD_A, COORD_B}

\* The coordinate lines of the input sets: index, then lon and lat, each
\* separated by two spaces.
CoordLines == {COORD_A, COORD_B, COORD_C, COORD_NEAR_A}

\* Number of lines at the end of d that are coordinate lines.
RECURSIVE TrailingCoords(_)
TrailingCoords(d) ==
  IF d # <<>> /\ Last(d) \in CoordLines
  THEN 1 + TrailingCoords(SubSeq(d, 1, Len(d) - 1))
  ELSE 0

WFSupply(line, last) ==
  LET k == Len(delivered)
      c == TrailingCoords(delivered)
  IN  /\ k < MaxLinesWF
      /\ CASE k = 0 -> line = NAME /\ ~last
           [] k = 1 -> line = HEADER /\ ~last
           [] k > 1 /\ Last(delivered) = END ->
                \/ line = END /\ last
                \/ line \in {HEADER, HOLE} /\ ~last /\ k + 6 <= MaxLinesWF
           [] OTHER ->
                \/ /\ line \in WFCoordLines
                   /\ ~last
                   /\ c < MaxRingLen
                   /\ k + 3 + (IF c < 2 THEN 2 - c ELSE 0) <= MaxLinesWF
                \/ line = END /\ ~last /\ c >= 3

ReadLineWF ==
  \E line \in WFCoordLines \cup {NAME, HEADER, HOLE, END}, last \in BOOLEAN :
    WFSupply(line, last) /\ Examine(line, last)

NextWF ==
  \/ ReadLineWF
  \/ ThenHandler
  \/ Drained

SpecWF == Init /\ [][NextWF]_vars

(***************************************************************************)
(* SpecSingle: files of the shape NAME, HEADER, 3..MaxRingLen lines drawn  *)
(* from SingleLines, END, END.  SingleLines holds coordinate lines and the *)
(* same lines written with single spaces.                                  *)
(***************************************************************************)
SingleLines == CoordLines \cup {SINGLE_A, SINGLE_B, SINGLE_C}

SingleSupply(line, last) ==
  LET k == Len(delivered)
  IN  CASE k = 0 -> line = NAME /\ ~last
        [] k = 1 -> line = HEADER /\ ~last
        [] k > 1 /\ Last(delivered) = END -> line = END /\ last
        [] OTHER ->
             \/ line \in SingleLines /\ ~last /\ k - 2 < MaxRingLen
             \/ line = END /\ ~last /\ k - 2 >= 3

ReadLineSingle ==
  \E line \in SingleLines \cup {NAME, HEADER, END}, last \in BOOLEAN :
    SingleSupply(line, last) /\ Examine(line, last)

ReadLineSingleAfterFailure ==
  \E line \in SingleLines \cup {NAME, HEADER, END}, last \in BOOLEAN :
    SingleSupply(line, last) /\ CallNull(line, last)

NextSingle ==
  \/ ReadLineSingle
  \/ ReadLineSingleAfterFailure
  \/ CatchHandler
  \/ ThenHandler
  \/ Drained

SpecSingle == Init /\ [][NextSingle]_vars

(***************************************************************************)
(* SpecReject: files that put lines readCoordinatePair rejects where a     *)
(* coordinate is expected.  NAME, then HEADER (Polygon) or END, HEADER     *)
(* (promoted to MultiPolygon), then 1..MaxRingLen lines drawn from         *)
(* RejectLines, END, END.  No line is delivered after a failure.           *)
(***************************************************************************)
RejectLines == {HEADER, HOLE, BAD_LON, BAD_LAT, SINGLE_A, COORD_A, COORD_B}

RejectSupply(line, last) ==
  LET k    == Len(delivered)
      open == IF k >= 2 /\ delivered[2] = END THEN 3 ELSE 2
  IN  CASE k = 0 -> line = NAME /\ ~last
        [] k = 1 -> line \in {HEADER, END} /\ ~last
        [] k = 2 /\ delivered[2] = END -> line = HEADER /\ ~last
        [] k > open /\ Last(delivered) = END -> line = END /\ last
        [] OTHER ->
             \/ line \in RejectLines /\ ~last /\ k - open < MaxRingLen
             \/ line = END /\ ~last /\ k - open >= 1

ReadLineReject ==
  \E line \in RejectLines \cup {NAME, END}, last \in BOOLEAN :
    RejectSupply(line, last) /\ Examine(line, last)

NextReject ==
  \/ ReadLineReject
  \/ CatchHandler
  \/ ThenHandler
  \/ Drained

SpecReject == Init /\ [][NextReject]_vars

(***************************************************************************)
(* SpecClosed: files that close a first ring and go on in any way.  NAME,  *)
(* HEADER, COORD_A, COORD_B, a third coordinate line, END, then at most    *)
(* MaxTail lines drawn from LineSet; the file may end at the END or at any *)
(* line after it.  No line is delivered after a failure.                   *)
(***************************************************************************)
ClosedSupply(line, last) ==
  LET k == Len(delivered)
  IN  CASE k = 0 -> line = NAME /\ ~last
        [] k = 1 -> line = HEADER /\ ~last
        [] k = 2 -> line = COORD_A /\ ~last
        [] k = 3 -> line = COORD_B /\ ~last
        [] k = 4 -> line \in WFCoordLines /\ ~last
        [] k = 5 -> line = END
        [] OTHER -> /\ line \in LineSet
                    /\ k < 6 + MaxTail
                    /\ (k + 1 = 6 + MaxTail => last)

ReadLineClosed ==
  \E line \in LineSet \cup {NAME}, last \in BOOLEAN :
    ClosedSupply(line, last) /\ Examine(line, last)

NextClosed ==
  \/ ReadLineClosed
  \/ CatchHandler
  \/ ThenHandler
  \/ Drained

SpecClosed == Init /\ [][NextClosed]_vars

(***************************************************************************)
(* Vocabulary of the properties                                            *)
(***************************************************************************)
Zero == [nan |-> FALSE, neg |-> FALSE, ip |-> 0, fd |-> <<>>]

\* The geometry as a sequence of polygons, whatever its type.
Polys(gj) ==
  IF gj.type = MULTIPOLYGON THEN gj.coordinates ELSE <<gj.coordinates>>

\* The ring coordinates are pushed onto (there is one whenever it is used).
OpenRing(gj) == Last(Last(Polys(gj)))

\* The position a coordinate line stands for.
PositionOf(line) ==
  LET t == Split(line, 3) IN <<ParseFloat(t[2]), ParseFloat(t[3])>>

FeatureReported == \E i \in 1..Len(reports) : reports[i].kind = "feature"

ErrorReported == \E i \in 1..Len(reports) : reports[i].kind = "error"

\* The parse has failed: an examiner returned the failure signal.
Failed == promise = "rejected" \/ ErrorReported

\* A step that passes one more line to an examiner function.
Consumes == Len(consumed') = Len(consumed) + 1

\* The whole file has been read and the main program has nothing left to do.
Over == proc # "running"

\* The eachLine loop as a function of a whole file: the examiner, the
\* Feature and whether a TypeError ended it.
RECURSIVE RunLines(_, _, _)
RunLines(ex, gj, lines) ==
  IF lines = <<>> \/ ex = "null"
  THEN [examiner |-> ex, gj |-> gj, threw |-> FALSE]
  ELSE LET r == Call(ex, lines[1], gj)
       IN  IF r.threw THEN [examiner |-> ex, gj |-> gj, threw |-> TRUE]
           ELSE RunLines(r.next, r.gj, Tail(lines))

(***************************************************************************)
(* Properties                                                              *)
(***************************************************************************)

\* C1: a Feature is reported only when the line supply ended while the
\* current state is AwaitingRingHeaderOrEof (endExaminer); a last line that
\* leaves the machine in polygonExaminer or coordinateExaminer reports none.
\* The callback resolves on `last` whatever examiner was returned, so this is
\* violated (by a file holding only its name line, for one).
C1_FeatureOnlyInTerminalState ==
  FeatureReported => examiner = "endExaminer"

\* Indices of the outer-ring header lines of a well-formed file d.
HeaderIdx(d) == {j \in 2..Len(d) : d[j] = HEADER}

NumGroups(d) == Cardinality(HeaderIdx(d))

\* Index of the i-th outer-ring header line.
NthHeader(d, i) ==
  CHOOSE j \in HeaderIdx(d) :
    Cardinality({m \in HeaderIdx(d) : m < j}) = i - 1

\* The i-th outer-ring group of a complete well-formed file d: its header,
\* its ring and its hole rings, up to the END that closes the last of them.
GroupLines(d, i) ==
  SubSeq(d, NthHeader(d, i),
         IF i < NumGroups(d) THEN NthHeader(d, i + 1) - 1 ELSE Len(d) - 1)

\* The parse of one group alone, as a single-polygon file.
ParseAlone(g) ==
  RunLines("fileExaminer", InitialFeature, <<NAME>> \o g \o <<END>>)

\* C2: a well-formed file with k >= 2 outer-ring groups parses to a
\* MultiPolygon of exactly k polygons in input order; each polygon, the first
\* one included, is the ring sequence the parse of its group alone gives.
\* The Feature is the only thing reported.
C2_MultiPolygonPerGroup ==
  (reader = "finished" /\ NumGroups(delivered) >= 2) =>
    /\ examiner = "endExaminer"
    /\ gjObj.type = MULTIPOLYGON
    /\ Len(gjObj.coordinates) = NumGroups(delivered)
    /\ \A i \in 1..NumGroups(delivered) :
         LET alone == ParseAlone(GroupLines(delivered, i))
         IN  /\ ~alone.threw
             /\ alone.examiner = "endExaminer"
             /\ alone.gj.type = POLYGON
             /\ gjObj.coordinates[i] = alone.gj.coordinates
    /\ \A i \in 1..Len(reports) : reports[i] = FeatureReport(gjObj)
    /\ (Over => reports = <<FeatureReport(gjObj)>>)

\* Two groups, the first with a hole ring, reported as a MultiPolygon.
C2_Witness ==
  /\ reports = <<FeatureReport(gjObj)>>
  /\ NumGroups(delivered) = 2
  /\ gjObj.type = MULTIPOLYGON
  /\ Len(gjObj.coordinates[1]) = 2
  /\ Len(gjObj.coordinates[2]) = 1
  /\ Len(gjObj.coordinates[1][1]) = 4

\* C3: a line starting with the subtract marker consumed by endExaminer
\* opens its ring in the same (last) polygon: the type and the number of
\* polygons stay, the earlier polygons stay, and the last polygon gains
\* exactly one (empty) ring; before and after the promotion alike.
C3_HoleJoinsLastPolygon ==
  [][(/\ examiner = "endExaminer"
      /\ Consumes
      /\ Last(consumed') # <<>>
      /\ Last(consumed')[1] = SUBTRACT)
     => /\ gjObj'.type = gjObj.type
        /\ Len(Polys(gjObj')) = Len(Polys(gjObj))
        /\ Polys(gjObj') =
             [Polys(gjObj) EXCEPT ![Len(Polys(gjObj))] = Append(@, <<>>)]
        /\ examiner' = "polygonExaminer"]_vars

\* After the promotion: a hole header right after the END of the outer ring
\* of the second polygon.
C3_Witness ==
  /\ gjObj.type = MULTIPOLYGON
  /\ examiner = "polygonExaminer"
  /\ Len(consumed) > 2
  /\ Last(consumed) = HOLE
  /\ consumed[Len(consumed) - 1] = END
  /\ Len(gjObj.coordinates) = 2
  /\ Len(Last(gjObj.coordinates)) = 2
  /\ Len(Last(gjObj.coordinates)[1]) >= 3
  /\ Last(Last(gjObj.coordinates)) = <<>>

\* A valid single-polygon file without holes: NAME, HEADER, n >= 3 coordinate
\* lines, END, END.
ValidSingle(d) ==
  /\ Len(d) >= 7
  /\ d[1] = NAME
  /\ d[2] = HEADER
  /\ \A j \in 3..(Len(d) - 2) : d[j] \in CoordLines
  /\ d[Len(d) - 1] = END
  /\ d[Len(d)] = END

\* The positions of the coordinate lines of a valid single-polygon file.
PositionsOf(d) == [j \in 1..(Len(d) - 4) |-> PositionOf(d[j + 2])]

\* The parse ended with a Feature and nothing else to report.
Succeeded ==
  /\ examiner = "endExaminer"
  /\ ~Failed
  /\ proc # "crashed"
  /\ \A i \in 1..Len(reports) : reports[i] = FeatureReport(gjObj)
  /\ (Over => reports = <<FeatureReport(gjObj)>>)

\* C4 as stated: a valid single-polygon file parses to a Polygon of one ring,
\* the parsed positions in order plus a copy of the first one if and only if
\* the first and the last position differ.
C4_AsStated ==
  (reader = "finished" /\ ValidSingle(delivered)) =>
    LET P == PositionsOf(delivered)
    IN  /\ Succeeded
        /\ gjObj.type = POLYGON
        /\ gjObj.coordinates =
             << IF PosEq(P[1], Last(P)) THEN P ELSE Append(P, P[1]) >>

\* C4 (amended): a valid single-polygon file parses to a Polygon of one ring,
\* the parsed positions in order plus a copy of the first one if and only if
\* the first and the last position differ in the text of their coordinates
\* rounded to 12 decimal digits.
C4_SinglePolygon ==
  (reader = "finished" /\ ValidSingle(delivered)) =>
    LET P == PositionsOf(delivered)
    IN  /\ Succeeded
        /\ gjObj.type = POLYGON
        /\ gjObj.coordinates =
             << IF SameFixed(P[1], Last(P)) THEN P ELSE Append(P, P[1]) >>

\* A valid single-polygon file reported with the closing vertex appended.
C4_Witness ==
  /\ ValidSingle(delivered)
  /\ reports = <<FeatureReport(gjObj)>>
  /\ Len(gjObj.coordinates[1]) = Len(delivered) - 3

\* C5: the end-marker consumed by coordinateExaminer fails the parse (failure
\* signal, no Feature then or later) when the current ring holds 2 or fewer
\* vertices, and leads to endExaminer when it holds 3 or more.
C5_RingThreshold ==
  /\ [][(examiner = "coordinateExaminer" /\ Consumes
           /\ Last(consumed') = END)
        => IF Len(OpenRing(gjObj)) <= 2
           THEN examiner' = "null" /\ Failed' /\ ~FeatureReported'
           ELSE examiner' = "endExaminer" /\ ~Failed']_vars
  /\ [](examiner = "null" => ~FeatureReported)

\* The parse failed on the END of a ring of exactly two vertices.
C5_Witness ==
  /\ examiner = "null"
  /\ ErrorReported
  /\ Last(consumed) = END
  /\ Len(OpenRing(gjObj)) = 2

\* C6 as stated: closing a ring of at least 3 vertices appends one copy of the
\* first position when the first and the last position differ, nothing when
\* they are equal, and closing the result again changes nothing.
C6_AsStated ==
  [][(examiner = "coordinateExaminer" /\ Consumes /\ Last(consumed') = END
        /\ Len(OpenRing(gjObj)) >= 3)
     => LET r == OpenRing(gjObj)
            c == OpenRing(gjObj')
        IN  /\ c = IF PosEq(r[1], Last(r)) THEN r ELSE Append(r, r[1])
            /\ closeRing(c) = [result |-> TRUE, ring |-> c]]_vars

\* C6 (amended): closing a ring of at least 3 vertices appends one copy of
\* the first position when the first and the last position differ in the
\* text of their coordinates rounded to 12 decimal digits, nothing otherwise,
\* and closing the result again changes nothing.
C6_ClosureIdempotent ==
  [][(examiner = "coordinateExaminer" /\ Consumes /\ Last(consumed') = END
        /\ Len(OpenRing(gjObj)) >= 3)
     => LET r == OpenRing(gjObj)
            c == OpenRing(gjObj')
        IN  /\ c = IF SameFixed(r[1], Last(r)) THEN r ELSE Append(r, r[1])
            /\ closeRing(c) = [result |-> TRUE, ring |-> c]]_vars

\* A ring of three vertices just closed by appending its first position.
C6_Witness ==
  /\ examiner = "endExaminer"
  /\ Len(consumed) = 6
  /\ Last(consumed) = END
  /\ Len(OpenRing(gjObj)) = 4
  /\ ~SameFixed(OpenRing(gjObj)[1], OpenRing(gjObj)[3])
  /\ OpenRing(gjObj)[4] = OpenRing(gjObj)[1]

\* C7: an empty line consumed by fileExaminer, polygonExaminer or
\* coordinateExaminer returns the failure signal, leaves the Feature as it
\* was and fails the parse; no Feature is reported for a failed parse.
C7_EmptyLineFails ==
  /\ [][(Consumes /\ Last(consumed') = EMPTY
           /\ examiner \in {"fileExaminer", "polygonExaminer",
                            "coordinateExaminer"})
        => /\ examiner' = "null"
           /\ gjObj' = gjObj
           /\ proc' # "crashed"
           /\ Failed'
           /\ ~FeatureReported']_vars
  /\ [](Failed => ~FeatureReported /\ examiner = "null")

\* An empty first line: the parse error is the only thing reported.
C7_Witness ==
  /\ consumed = <<EMPTY>>
  /\ examiner = "null"
  /\ gjObj = InitialFeature
  /\ reports = <<ErrorReport>>

\* C8: every file, the one without lines included, ends with exactly one
\* result reported, a Feature or a parse error, and never with two.  A file
\* without lines never reaches the callback, so nothing is reported; a
\* TypeError out of an examiner ends the process with nothing reported.
C8_ExactlyOneResult ==
  /\ Len(reports) <= 1
  /\ (Over => Len(reports) = 1)

\* C9: once an examiner has returned the failure signal no later line is
\* passed to an examiner function, the Feature is not changed any further and
\* no Feature is reported, also when line-reader delivers further lines.
C9_AbortOnFailure ==
  /\ [][Failed => /\ consumed' = consumed
                  /\ gjObj' = gjObj
                  /\ examiner' = "null"
                  /\ ~FeatureReported']_vars
  /\ [](Failed => ~FeatureReported)

\* A line delivered after the failure and not passed to any examiner.
C9_Witness ==
  /\ Failed
  /\ Len(delivered) > Len(consumed)
  /\ Last(consumed) = EMPTY
  /\ Len(consumed) >= 3

\* The example file as written, and with two spaces between the tokens.
ExampleAsWritten == <<NAME, HEADER, SINGLE_A, SINGLE_B, SINGLE_C, END, END>>

ExampleTwoSpaces == <<NAME, HEADER, COORD_A, COORD_B, COORD_C, END, END>>

\* A Polygon of one ring of 4 positions, the 4th equal to the 1st, [0,0].
OneRingOfFour(gj) ==
  /\ gj.type = POLYGON
  /\ Len(gj.coordinates) = 1
  /\ Len(gj.coordinates[1]) = 4
  /\ gj.coordinates[1][4] = gj.coordinates[1][1]
  /\ gj.coordinates[1][1] = <<Zero, Zero>>

\* C10 as stated: the example file with single spaces between the tokens
\* parses to a Polygon of one ring of 4 positions closing at [0,0].
C10_AsStated ==
  (reader = "finished" /\ delivered = ExampleAsWritten) =>
    Succeeded /\ OneRingOfFour(gjObj)

\* C10 (amended): the example file parses to a Polygon of one ring of 4
\* positions closing at [0,0] when the tokens of its coordinate lines are
\* separated by two spaces; as written, with single spaces, none of the three
\* lines is a coordinate pair, each opens a ring, and the Polygon reported
\* holds four empty rings.
C10_Example ==
  /\ (reader = "finished" /\ delivered = ExampleTwoSpaces) =>
       /\ Succeeded
       /\ OneRingOfFour(gjObj)
       /\ gjObj.coordinates[1] =
            <<PositionOf(COORD_A), PositionOf(COORD_B), PositionOf(COORD_C),
              PositionOf(COORD_A)>>
  /\ (reader = "finished" /\ delivered = ExampleAsWritten) =>
       /\ Succeeded
       /\ gjObj.type = POLYGON
       /\ gjObj.coordinates = << <<>>, <<>>, <<>>, <<>> >>

\* The two-space example, reported.
C10_Witness ==
  /\ delivered = ExampleTwoSpaces
  /\ reports = <<FeatureReport(gjObj)>>

\* C11: properties.name is set once, by fileExaminer, to the first line of
\* the file; no later step changes the properties, and fileExaminer is the
\* examiner only before the first line and never again.
C11_NameSetOnce ==
  /\ [][/\ (examiner = "fileExaminer" /\ Consumes /\ Last(consumed') # EMPTY)
            => /\ gjObj'.properties = [k \in {"name"} |-> Last(consumed')]
               /\ examiner' = "polygonExaminer"
        /\ (examiner # "fileExaminer")
            => /\ gjObj'.properties = gjObj.properties
               /\ examiner' # "fileExaminer"]_vars
  /\ [](examiner = "fileExaminer"
          => consumed = <<>> /\ gjObj.properties = InitialFeature.properties)
  /\ []((consumed # <<>> /\ consumed[1] # EMPTY)
          => gjObj.properties = [k \in {"name"} |-> consumed[1]])

\* The name still is the first line after a promotion, five lines later.
C11_Witness ==
  /\ Len(consumed) >= 5
  /\ gjObj.type = MULTIPOLYGON
  /\ DOMAIN gjObj.properties = {"name"}
  /\ gjObj.properties["name"] = consumed[1]
  /\ consumed[1] # consumed[2]

\* C12: whenever the type is MultiPolygon the polygon sequence is not empty
\* and every polygon, the first one (made by wrapping the rings held at the
\* promotion) included, holds at least one ring.  The promotion wraps the
\* ring sequence as it is: promoted before any ring was opened, the first
\* polygon holds no ring.
C12_EveryPolygonHasARing ==
  gjObj.type = MULTIPOLYGON =>
    /\ gjObj.coordinates # <<>>
    /\ \A i \in 1..Len(gjObj.coordinates) : Len(gjObj.coordinates[i]) >= 1

\* The line is one readCoordinatePair takes for a coordinate pair: three
\* tokens, the second and the third parsed to numbers.
IsCoordinatePair(line) ==
  /\ Len(Split(line, 3)) > 2
  /\ ~IsNaN(ParseFloat(Split(line, 3)[2]))
  /\ ~IsNaN(ParseFloat(Split(line, 3)[3]))

\* C13: whenever polygonExaminer or coordinateExaminer consumes a
\* coordinate-pair line there is an open ring to receive it, and the parsed
\* position becomes the new last element of that ring.  polygonExaminer is
\* the examiner right after the name line, before any ring exists: a
\* coordinate line there makes readCoordinatePair throw a TypeError.
C13_CoordinateHasOpenRing ==
  [][(Consumes /\ examiner \in {"polygonExaminer", "coordinateExaminer"}
        /\ IsCoordinatePair(Last(consumed')))
     => /\ proc' # "crashed"
        /\ OpenRing(gjObj') =
             Append(OpenRing(gjObj), PositionOf(Last(consumed')))]_vars

\* The rings of all polygons in one sequence, in order.
RECURSIVE Flatten(_)
Flatten(pp) == IF pp = <<>> THEN <<>> ELSE pp[1] \o Flatten(Tail(pp))

AllRings(gj) == Flatten(Polys(gj))

\* The rings closed while parsing lines, by their index in AllRings: a ring
\* is closed when coordinateExaminer consumes END and does not fail, and it
\* is the last ring at that moment.
RECURSIVE ClosedAt(_, _, _)
ClosedAt(ex, gj, lines) ==
  IF lines = <<>> \/ ex = "null" THEN {}
  ELSE LET r == Call(ex, lines[1], gj)
       IN  IF r.threw THEN {}
           ELSE (IF ex = "coordinateExaminer" /\ lines[1] = END
                      /\ r.next # "null"
                 THEN {Len(AllRings(r.gj))} ELSE {})
                \cup ClosedAt(r.next, r.gj, Tail(lines))

\* C14: every ring that was closed (END consumed by coordinateExaminer
\* without failure) holds at least 3 positions, its first and its last equal
\* under the toFixed(PRECISION) comparison, in the state after the closure and
\* in every later state, after a promotion too.
C14_ClosedRingsStayClosed ==
  \A i \in ClosedAt("fileExaminer", InitialFeature, consumed) :
    /\ i <= Len(AllRings(gjObj))
    /\ LET ring == AllRings(gjObj)[i]
       IN  /\ Len(ring) >= 3
           /\ SameFixed(ring[1], Last(ring))

\* A ring closed before the promotion, now the ring of the first polygon,
\* and the ring of the second polygon closed after it.
C14_Witness ==
  /\ gjObj.type = MULTIPOLYGON
  /\ ClosedAt("fileExaminer", InitialFeature, consumed) = {1, 2}
  /\ Len(gjObj.coordinates) = 2
  /\ Len(gjObj.coordinates[1][1]) = 4
  /\ Len(gjObj.coordinates[2][1]) = 3

\* C15: every Feature reported after the file ended in endExaminer holds
\* closed rings only: each ring has at least 3 positions, the first and the
\* last equal under the closure comparison.  polygonExaminer takes END
\* without looking at the ring that was opened, and a line that is no
\* coordinate pair makes coordinateExaminer open the next ring without
\* closing the one before, so that empty and unclosed rings are reported.
C15_ReportedRingsClosed ==
  \A i \in 1..Len(reports) :
    (reports[i].kind = "feature" /\ examiner = "endExaminer") =>
      \A j \in 1..Len(AllRings(reports[i].value)) :
        LET ring == AllRings(reports[i].value)[j]
        IN  /\ Len(ring) >= 3
            /\ SameFixed(ring[1], Last(ring))

\* C16: the geometry starts as a Polygon with no ring; its type changes at
\* most once, from Polygon to MultiPolygon, and never back; the step that
\* promotes makes the coordinates exactly two polygons, the ring sequence
\* held before the step and a new polygon of one empty ring; once a
\* MultiPolygon, a header line without the subtract marker consumed by
\* endExaminer appends one polygon of one empty ring and wraps nothing.
C16_PromotionOnce ==
  /\ gjObj.type = POLYGON /\ gjObj.coordinates = <<>>
  /\ [][/\ gjObj'.type \in {POLYGON, MULTIPOLYGON}
        /\ gjObj.type = MULTIPOLYGON => gjObj'.type = MULTIPOLYGON
        /\ (gjObj.type = POLYGON /\ gjObj'.type = MULTIPOLYGON)
            => /\ examiner = "endExaminer"
               /\ gjObj'.coordinates = <<gjObj.coordinates, << <<>> >> >>
        /\ (gjObj.type = MULTIPOLYGON /\ examiner = "endExaminer" /\ Consumes
              /\ Last(consumed') \notin {EMPTY, END}
              /\ Last(consumed')[1] # SUBTRACT)
            => gjObj'.coordinates = Append(gjObj.coordinates, << <<>> >>)
       ]_vars

\* A header line after the promotion: a third polygon, and the first one
\* still is the two rings that were wrapped.
C16_Witness ==
  /\ gjObj.type = MULTIPOLYGON
  /\ Len(gjObj.coordinates) = 3
  /\ Last(consumed) = HEADER
  /\ Len(gjObj.coordinates[1]) = 2
  /\ gjObj.coordinates[3] = << <<>> >>

\* C17: a step changes at most the last ring of the last ring sequence, by
\* one position pushed on it or by the closing position, or appends one empty
\* ring (alone or in a new polygon) after the rings held; every ring before
\* the last keeps its positions in their order, and the promotion re-nests
\* the rings without changing any.
C17_EarlierRingsKept ==
  [][LET a == AllRings(gjObj)
         b == AllRings(gjObj')
         n == Len(AllRings(gjObj))
     IN  /\ Len(b) \in {n, n + 1}
         /\ \A i \in 1..(n - 1) : b[i] = a[i]
         /\ Len(b) = n + 1 =>
              /\ b[n + 1] = <<>>
              /\ n >= 1 => b[n] = a[n]
         /\ (Len(b) = n /\ n >= 1) =>
              \/ b[n] = a[n]
              \/ /\ Len(b[n]) = Len(a[n]) + 1
                 /\ SubSeq(b[n], 1, Len(a[n])) = a[n]
         /\ Len(Polys(gjObj')) >= Len(Polys(gjObj))
         /\ \A k \in 1..(Len(Polys(gjObj)) - 1) :
              Polys(gjObj')[k] = Polys(gjObj)[k]
    ]_vars

\* A second ring receiving a position while the first ring holds two.
C17_Witness ==
  /\ Len(AllRings(gjObj)) = 2
  /\ Len(AllRings(gjObj)[1]) = 2
  /\ Len(AllRings(gjObj)[2]) = 1
  /\ examiner = "coordinateExaminer"

\* A line that is not empty, is not END and is no coordinate pair for
\* readCoordinatePair: fewer than three tokens, or a token that is no number.
Rejected(line) == line \notin {EMPTY, END} /\ ~IsCoordinatePair(line)

\* C18: a line that is not empty, is not END and is rejected by
\* readCoordinatePair, consumed by polygonExaminer or coordinateExaminer,
\* never fails the parse: no position is stored, exactly one empty ring is
\* opened at the end of the current ring sequence, and the examiner becomes
\* coordinateExaminer (from polygonExaminer) or polygonExaminer (from
\* coordinateExaminer).
C18_RejectedLineOpensRing ==
  [][(Consumes /\ examiner \in {"polygonExaminer", "coordinateExaminer"}
        /\ Rejected(Last(consumed')))
     => /\ proc' # "crashed"
        /\ examiner' = (IF examiner = "polygonExaminer"
                        THEN "coordinateExaminer" ELSE "polygonExaminer")
        /\ ~Failed'
        /\ gjObj'.type = gjObj.type
        /\ Polys(gjObj') =
             [Polys(gjObj) EXCEPT ![Len(Polys(gjObj))] = Append(@, <<>>)]
    ]_vars

\* A line with a longitude that is no number, consumed by coordinateExaminer
\* in a MultiPolygon: the ring keeps its position and a new ring is opened.
C18_Witness ==
  /\ gjObj.type = MULTIPOLYGON
  /\ Last(consumed) = BAD_LON
  /\ examiner = "polygonExaminer"
  /\ gjObj.coordinates[2] = << <<PositionOf(COORD_A)>>, <<>> >>

\* C19: an empty line never changes the Feature, whatever the examiner; in
\* endExaminer it neither promotes nor opens a ring or a polygon.
\* endExaminer tests the line against END and its first character against
\* the subtract marker only: an empty line falls into the last branch, which
\* promotes and pushes a new polygon.
C19_EmptyLineChangesNothing ==
  [][(Consumes /\ Last(consumed') = EMPTY) => gjObj' = gjObj]_vars

\* x is an array (a sequence), told from a number by the print of its index
\* set: 1..n for a sequence, the field names for a number.
IsArray(x) == ToString(DOMAIN x) = ToString(1..Cardinality(DOMAIN x))

\* x is a number as ParseFloat returns it, and not NaN.
IsNumber(x) == ~IsArray(x) /\ Cardinality(DOMAIN x) = 4 /\ ~IsNaN(x)

\* [lon, lat]
IsPosition(x) == IsArray(x) /\ Len(x) = 2 /\ IsNumber(x[1]) /\ IsNumber(x[2])

\* An array of positions.
IsRing(x) == IsArray(x) /\ \A j \in 1..Len(x) : IsPosition(x[j])

\* An array of rings: the coordinates of a Polygon.
IsRingSeq(x) == IsArray(x) /\ \A i \in 1..Len(x) : IsRing(x[i])

\* An array of arrays of rings: the coordinates of a MultiPolygon.
IsPolygonSeq(x) == IsArray(x) /\ \A i \in 1..Len(x) : IsRingSeq(x[i])

\* C20: in every state the type and the nesting of the coordinates agree: a
\* Polygon holds an array of rings, a MultiPolygon an array of polygons, each
\* an array of rings, and a ring is an array of [lon, lat] positions; nowhere
\* is a ring found in the place of a polygon or a position in the place of a
\* ring.  (An empty array fits every level.)
C20_TypeMatchesNesting ==
  /\ gjObj.type \in {POLYGON, MULTIPOLYGON}
  /\ gjObj.type = POLYGON => IsRingSeq(gjObj.coordinates)
  /\ gjObj.type = MULTIPOLYGON => IsPolygonSeq(gjObj.coordinates)
  /\ \A i \in 1..Len(reports) :
       reports[i].kind = "feature" =>
         IF reports[i].value.type = POLYGON
         THEN IsRingSeq(reports[i].value.coordinates)
         ELSE IsPolygonSeq(reports[i].value.coordinates)

\* A MultiPolygon with positions in the ring of its first polygon and in the
\* ring of its second.
C20_Witness ==
  /\ gjObj.type = MULTIPOLYGON
  /\ Len(gjObj.coordinates) = 2
  /\ gjObj.coordinates[1] # <<>>
  /\ gjObj.coordinates[1][1] # <<>>
  /\ OpenRing(gjObj) # <<>>

=============================================================================
